---- MODULE Spec2Model ----
(***************************************************************************)
(* The wiki applications of Workshop 3 and Workshop 4: iron-session        *)
(* cookie sessions, flash messages, the requireLogin guard, registration,  *)
(* login, avatar upload and wiki pages, in their in-memory, raw SQLite and *)
(* User/Page model variants; and the form applications of Workshop 2       *)
(* behind csurf, the task API and the live chat of Workshop 5, the JSON    *)
(* API of Workshop 1 and the database middleware of Workshop 4.  One       *)
(* browser talks to one server process, except where requests, sockets or  *)
(* callbacks are in progress together (SpecRace, SpecChat, SpecDb).        *)
(* Strings the code measures, trims, compares or puts in a URL are         *)
(* sequences of one-character strings; message texts are plain strings.    *)
(***************************************************************************)
EXTENDS Integers, Sequences, FiniteSets, TLC

VARIABLES app, users, pages, avatars, cookie, now, req, res

\* Workshop 2, the contact-form example and the quotes app behind csurf:
\* app.locals.QuotesDB, the lines written with console.log, and the secret in
\* the browser's _csrf cookie
VARIABLES QuotesDB, console, csrfSecret

\* Workshop 5, the task API: the rows of the user and Tasks tables of spa.db
VARIABLES apiUsers, tasks

\* Workshop 4 in memory: the POST /register handlers that wait for argon.hash
VARIABLES inflight

\* Workshop 4 with SQLite, middlewares/dbMiddleware.js: the connection kept by
\* app.set('db') (0: none, k: the k-th that was opened) and its state, the
\* number of `new sqlite3.Database` calls, the closeDb listeners registered for
\* SIGINT (as many for SIGTERM), the request whose middleware call opened the
\* connection, for each request the calls of next made for it and the
\* connection it was given, the process, the db.close calls whose callback is
\* due, and the close callbacks that ran
VARIABLES db, dbState, opened, listeners, opener, nexts, proc, closes, closed

\* Workshop 5, the live chat: the rows of the Messages table in timestamp
\* order, the Socket.IO sockets of the clients, and the rows whose insert has
\* completed while the io.emit that follows it has not run yet
VARIABLES Messages, sockets, emitting

\* the state of the wiki applications, and the state of the other applications
wikiVars == <<users, pages, avatars, cookie, now>>
formVars == <<QuotesDB, console, csrfSecret>>
apiVars == <<apiUsers, tasks>>
raceVars == <<inflight>>
dbVars == <<db, dbState, opened, listeners, opener, nexts, proc, closes, closed>>
chatVars == <<Messages, sockets, emitting>>
laterVars == <<raceVars, dbVars, chatVars>>
extVars == <<formVars, apiVars, laterVars>>

vars == <<app, users, pages, avatars, cookie, now, req, res, QuotesDB, console, csrfSecret,
          apiUsers, tasks, inflight, db, dbState, opened, listeners, opener, nexts, proc,
          closes, closed, Messages, sockets, emitting>>

(***************************************************************************)
(* Bounds of the model.                                                    *)
(***************************************************************************)
\* files multer may store in public/avatars/
MaxFiles == 1
\* the clock stops here (seconds)
MaxTime == 1000
\* seconds that pass in one Tick
TickStep == 450
\* lines console.log may write, and quotes QuotesDB may hold
MaxLog == 2
MaxQuotes == 2
\* users whose tokens are presented to the task API, and rows of the Tasks table
MaxUsers == 2
MaxTasks == 2
\* POST /register requests that may be in progress at the same time
MaxRequests == 2
\* requests that pass the database middleware, and signals sent to the process
MaxDbRequests == 3
MaxSignals == 2
\* chat clients, and rows of the Messages table
MaxClients == 2
MaxMessages == 2

(***************************************************************************)
(* Strings.                                                                *)
(***************************************************************************)
sBob == <<"b", "o", "b">>
sEve == <<"e", "v", "e">>
sAl == <<"a", "l">>
sBobPadded == <<" ", "b", "o", "b", " ">>
sSecret == <<"s", "e", "c", "r", "e", "t">>
sHunter == <<"h", "u", "n", "t", "e", "r">>
sAbc == <<"a", "b", "c">>
sHome == <<"H", "o", "m", "e">>
sTwoWords == <<"a", " ", "b">>
sSlashed == <<"a", "/", "b">>
sBlank == <<" ", " ">>
sHello == <<"h", "i">>
sOther == <<"y", "o">>
sCatPng == <<"c", "a", "t", ".", "P", "N", "G">>
sCatGif == <<"c", ".", "g", "i", "f">>
sShell == <<"x", ".", "p", "h", "p">>
sDotPng == <<".", "p", "n", "g">>
sNoExt == <<"c", "a", "t">>
sWikiPrefix == <<"/", "w", "i", "k", "i", "/">>
sNowhere == <<"/", "n", "o", "p", "e">>

\* JavaScript's falsy empty string; session.user?.username || null
NoUser == <<>>
\* avatar: null
NoAvatar == 0

IsSpace(c) == c \in {" ", "\t", "\n"}

RECURSIVE TrimLeft(_)
TrimLeft(s) ==
    IF s = <<>> THEN <<>>
    ELSE IF IsSpace(Head(s)) THEN TrimLeft(Tail(s)) ELSE s

RECURSIVE TrimRight(_)
TrimRight(s) ==
    IF s = <<>> THEN <<>>
    ELSE IF IsSpace(s[Len(s)]) THEN TrimRight(SubSeq(s, 1, Len(s) - 1)) ELSE s

\* express-validator's trim() sanitizer
Trim(s) == TrimRight(TrimLeft(s))

LowerOf(c) ==
    CASE c = "P" -> "p"
      [] c = "N" -> "n"
      [] c = "G" -> "g"
      [] c = "H" -> "h"
      [] c = "A" -> "a"
      [] OTHER -> c

\* String.prototype.toLowerCase
ToLowerCase(s) == [i \in 1..Len(s) |-> LowerOf(s[i])]

\* the positions of character c in s
Positions(s, c) == {i \in 1..Len(s) : s[i] = c}

Max(S) == CHOOSE x \in S : \A y \in S : y <= x
Min(S) == CHOOSE x \in S : \A y \in S : x <= y

\* path.basename: the part after the last "/"
BaseName(s) ==
    IF Positions(s, "/") = {} THEN s
    ELSE SubSeq(s, Max(Positions(s, "/")) + 1, Len(s))

\* path.extname: from the last "." of the last path portion to its end; empty
\* when there is none or when the only "." is the portion's first character
ExtName(s) ==
    LET b == BaseName(s)
        dots == Positions(b, ".")
    IN  IF dots = {} \/ Max(dots) = 1 THEN <<>>
        ELSE SubSeq(b, Max(dots), Len(b))

(***************************************************************************)
(* URLs: res.redirect, the browser following it, Express' route matching.  *)
(***************************************************************************)
IsHex(c) == c \in {"0", "1", "2", "3", "4", "5", "6", "7", "8", "9",
                   "a", "b", "c", "d", "e", "f", "A", "B", "C", "D", "E", "F"}

\* res.redirect(url) sets Location to encodeUrl(url): a space becomes %20, a "%"
\* that does not start an escape becomes %25, and "/", "?", "#" stay as they are
RECURSIVE EncodeUrl(_)
EncodeUrl(s) ==
    IF s = <<>> THEN <<>>
    ELSE LET c == Head(s)
         IN  IF c = " " THEN <<"%", "2", "0">> \o EncodeUrl(Tail(s))
             ELSE IF c = "%" /\ ~(Len(s) >= 3 /\ IsHex(s[2]) /\ IsHex(s[3]))
                  THEN <<"%", "2", "5">> \o EncodeUrl(Tail(s))
                  ELSE <<c>> \o EncodeUrl(Tail(s))

\* the text of s before the first c
Before(s, c) ==
    IF Positions(s, c) = {} THEN s ELSE SubSeq(s, 1, Min(Positions(s, c)) - 1)

\* the browser requests a Location without its fragment; Express routes on the
\* pathname, the part before the query string
PathName(url) == Before(Before(url, "#"), "?")

HexPair(h1, h2) ==
    CASE h1 = "2" /\ h2 = "0" -> " "
      [] h1 = "2" /\ h2 = "5" -> "%"
      [] h1 = "2" /\ h2 \in {"f", "F"} -> "/"
      [] h1 = "4" /\ h2 = "1" -> "A"
      [] OTHER -> "?"

\* decodeURIComponent, as Express applies it to a route parameter
RECURSIVE DecodeOk(_)
DecodeOk(s) ==
    IF s = <<>> THEN TRUE
    ELSE IF Head(s) = "%"
         THEN Len(s) >= 3 /\ IsHex(s[2]) /\ IsHex(s[3]) /\ DecodeOk(SubSeq(s, 4, Len(s)))
         ELSE DecodeOk(Tail(s))

RECURSIVE DecodeURIComponent(_)
DecodeURIComponent(s) ==
    IF s = <<>> THEN <<>>
    ELSE IF Head(s) = "%"
         THEN <<HexPair(s[2], s[3])>> \o DecodeURIComponent(SubSeq(s, 4, Len(s)))
         ELSE <<Head(s)>> \o DecodeURIComponent(Tail(s))

HasPrefix(s, p) == Len(s) >= Len(p) /\ SubSeq(s, 1, Len(p)) = p

\* the text '/wiki/:pageName' captures from a pathname: one non-empty segment
\* after /wiki/, with an optional trailing slash; <<>> when the route does not match
WikiParam(path) ==
    IF ~HasPrefix(path, sWikiPrefix) THEN <<>>
    ELSE LET r == SubSeq(path, Len(sWikiPrefix) + 1, Len(path))
             seg == IF r # <<>> /\ r[Len(r)] = "/" THEN SubSeq(r, 1, Len(r) - 1) ELSE r
         IN  IF Positions(seg, "/") = {} THEN seg ELSE <<>>

(***************************************************************************)
(* express-validator chains.                                               *)
(***************************************************************************)
FieldError(path, msg) == [path |-> path, msg |-> msg]

If(c, e) == IF c THEN <<e>> ELSE <<>>

\* a POST /register whose chain checks no lengths
RegisterErrorsUnchecked(username, password) ==
    If(username = <<>>, FieldError("username", "Username is required"))
    \o If(password = <<>>, FieldError("password", "Password is required"))

\* body('username').notEmpty().withMessage(..).trim().isLength({min: 3, max: 25}),
\* body('password').notEmpty().withMessage(..).isLength({min: 6})
RegisterErrors(username, password) ==
    If(username = <<>>, FieldError("username", "Username is required"))
    \o If(~(Len(Trim(username)) \in 3..25), FieldError("username", "Invalid value"))
    \o If(password = <<>>, FieldError("password", "Password is required"))
    \o If(Len(password) < 6, FieldError("password", "Invalid value"))

\* body('username').notEmpty(), body('password').notEmpty()
LoginErrors(username, password) ==
    If(username = <<>>, FieldError("username", "Username is required"))
    \o If(password = <<>>, FieldError("password", "Password is required"))

\* body('title').notEmpty().withMessage(..).trim(), body('content').notEmpty()
CreateErrors(title, content) ==
    If(title = <<>>, FieldError("title", "Page title is required"))
    \o If(content = <<>>, FieldError("content", "Content is required"))

Flash(category, message) == [category |-> category, message |-> message]

\* errors.array().map(err => ({ category: 'danger', message: err.msg }))
ErrorsAsMessages(errors) == [i \in 1..Len(errors) |-> Flash("danger", errors[i].msg)]

(***************************************************************************)
(* The applications.  W3E4: Workshop 3 with the inline requireLogin of     *)
(* routes/profile.js and field errors kept in session.errors; W3E5:        *)
(* Workshop 3 with the middlewares folder; W4M: Workshop 4 in memory with  *)
(* Argon2; W4SQL: raw SQLite queries; W4ORM: the User and Page classes.    *)
(***************************************************************************)
Apps == {"W3E4", "W3E5", "W4M", "W4SQL", "W4ORM"}

InMemory == app \in {"W3E4", "W3E5", "W4M"}
Hashed == app \in {"W4M", "W4SQL", "W4ORM"}

sLogin == <<"/", "l", "o", "g", "i", "n">>
sRegister == <<"/", "r", "e", "g", "i", "s", "t", "e", "r">>
sProfile == <<"/", "p", "r", "o", "f", "i", "l", "e">>
sCreate == <<"/", "c", "r", "e", "a", "t", "e">>
sRoot == <<"/">>
sLogout == <<"/", "l", "o", "g", "o", "u", "t">>
s404 == <<"/", "4", "0", "4">>
sToString == <<"t", "o", "S", "t", "r", "i", "n", "g">>
sConstructor == <<"c", "o", "n", "s", "t", "r", "u", "c", "t", "o", "r">>

(***************************************************************************)
(* iron-session: the session lives sealed in the browser's cookie.         *)
(***************************************************************************)
maxAge == 15 * 60

EmptySession == [user |-> NoUser, messages |-> <<>>, errors |-> <<>>]

NoCookie == [kind |-> "none", data |-> EmptySession, expires |-> 0]
\* a cookie whose value does not unseal
BadCookie == [kind |-> "garbage", data |-> EmptySession, expires |-> 0]

\* the Cookie header of a request at time t: the browser drops a cookie Max-Age
\* seconds after the Set-Cookie that carried it
CookieSent(c, t) == IF c.kind = "sealed" /\ t >= c.expires THEN NoCookie ELSE c

\* a getIronSession that rejects when the cookie's seal does not verify
GetIronSessionThrowing(c) ==
    IF c.kind = "sealed" THEN [ok |-> TRUE, session |-> c.data]
    ELSE IF c.kind = "garbage" THEN [ok |-> FALSE, session |-> EmptySession]
    ELSE [ok |-> TRUE, session |-> EmptySession]

\* getIronSession(req, res, options): the unsealed data, or an empty session when
\* there is no cookie or its seal does not verify; it does not throw for either
GetIronSession(c) ==
    IF c.kind = "sealed" THEN [ok |-> TRUE, session |-> c.data]
    ELSE [ok |-> TRUE, session |-> EmptySession]

\* the session middleware: req.session = await getIronSession(..); next()
SessionMiddleware(c) ==
    LET got == GetIronSession(c)
    IN  [nexts |-> IF got.ok THEN 1 ELSE 0, session |-> got.session]

\* the session a request made now is handled with
Session == SessionMiddleware(CookieSent(cookie, now)).session

\* a save() that keeps the expiry of the cookie the request came with
SaveKeepingExpiry(s) ==
    [kind |-> "sealed", data |-> s,
     expires |-> IF cookie.kind = "sealed" THEN cookie.expires ELSE now + maxAge]

\* await req.session.save(): Set-Cookie with the sealed session and Max-Age=maxAge
Save(s) == [kind |-> "sealed", data |-> s, expires |-> now + maxAge]

\* await req.session.destroy(): Set-Cookie with Max-Age=0
Destroy == NoCookie

(***************************************************************************)
(* Storage: app.locals.users / app.locals.pages, or the SQLite tables.     *)
(***************************************************************************)
\* names every JavaScript object inherits from Object.prototype
ProtoKeys == {sToString, sConstructor}

\* argon2.hash and argon2.verify
Argon2Hash(p) == <<"$argon2id$">> \o p
Argon2Verify(h, p) == h = Argon2Hash(p)

\* what POST /register stores as the password: { password } in Workshop 3,
\* the Argon2 hash in Workshop 4
StoredPassword(p) == IF Hashed THEN Argon2Hash(p) ELSE p

\* users[username] (truthy for an inherited name too) or
\* SELECT * FROM users WHERE username = ?
UserExists(username) ==
    \/ username \in DOMAIN users
    \/ InMemory /\ username \in ProtoKeys

\* a login check that does not compare the password
PasswordIgnored(username, password) == username \in DOMAIN users

\* user && user.password === password, or user && await argon.verify(hash, password)
PasswordMatches(username, password) ==
    /\ username \in DOMAIN users
    /\ IF Hashed THEN Argon2Verify(users[username].password, password)
       ELSE users[username].password = password

\* argon.verify(undefined, password) throws for a name that is only inherited
LoginThrows(username) ==
    app = "W4M" /\ username \notin DOMAIN users /\ username \in ProtoKeys

\* pages[pageName] or SELECT * FROM pages WHERE title = ?
PageExists(title) ==
    \/ title \in DOMAIN pages
    \/ InMemory /\ title \in ProtoKeys

Put(f, k, v) == [x \in DOMAIN f \cup {k} |-> IF x = k THEN v ELSE f[x]]

(***************************************************************************)
(* Responses and handler outcomes.                                         *)
(***************************************************************************)
\* status 0: the request was left without a response
NoRes ==
    [status |-> 0, location |-> <<>>, view |-> "", username |-> NoUser,
     messages |-> <<>>, errors |-> <<>>, content |-> <<>>, flash |-> <<>>,
     ran |-> <<>>, nexts |-> 0]

\* res.redirect(location) after the stages in ran; flash is what the stages
\* assigned to req.session.messages
Redirect(location, flash, ran) ==
    [NoRes EXCEPT !.status = 302, !.location = EncodeUrl(location),
                  !.flash = flash, !.ran = ran, !.nexts = 1]

\* res.status(status).render(view, {username, messages, errors, ..})
Render(status, view, username, messages, errors, content, ran) ==
    [NoRes EXCEPT !.status = status, !.view = view, !.username = username,
                  !.messages = messages, !.errors = errors, !.content = content,
                  !.ran = ran, !.nexts = 1]

\* Express' default error handler, reached by next(err)
ServerError(ran) == [NoRes EXCEPT !.status = 500, !.ran = ran, !.nexts = 1]

\* a rejected promise in an async handler: Express 4 sends nothing
Hang(ran) == [NoRes EXCEPT !.ran = ran, !.nexts = 1]

\* a handler's outcome: the stores, the browser's cookie and the response
Out(c, r) == [users |-> users, pages |-> pages, avatars |-> avatars, cookie |-> c, res |-> r]

\* the stages a request runs through
Plain == <<"session", "handler">>
Guarded == <<"session", "requireLogin", "handler">>
Uploaded == <<"session", "requireLogin", "upload", "handler">>

MustLogin == Flash("danger", "You must be logged in to access this page.")
UsernameExists == Flash("danger", "Username already exists!")
Registered == Flash("success", "Registration successful! Please log in.")
LoginSuccessful == Flash("success", "Login successful!")
InvalidLogin == Flash("danger", "Invalid username or password.")
NoFile == Flash("danger", "No file selected or invalid file type.")
AvatarUpdated ==
    Flash("success", IF app \in {"W4SQL", "W4ORM"} THEN "Avatar updated successfully!"
                     ELSE "Avatar updated!")
PageMissing == Flash("danger", "This page don't exist")
PageCreated == Flash("success", "Page created successfully!")
PageTaken ==
    Flash("danger", IF app = "W4SQL" THEN "A page with that title already exists!"
                    ELSE "Error creating page. It might already exist.")
NotFoundMessage == Flash("danger", "Page don't exist")

(***************************************************************************)
(* routes/auth.js                                                          *)
(***************************************************************************)
\* what a failed validation leaves in the session: messages in W3E5,
\* errors.errros (undefined) in W3E4, errors.errors in Workshop 4
ValidationFailed(s, errors, location) ==
    CASE app = "W3E5" ->
           Out(Save([s EXCEPT !.messages = ErrorsAsMessages(errors)]),
               Redirect(location, ErrorsAsMessages(errors), Plain))
      [] app = "W3E4" ->
           Out(Save([s EXCEPT !.errors = <<>>]), Redirect(location, <<>>, Plain))
      [] OTHER ->
           Out(Save([s EXCEPT !.errors = errors]), Redirect(location, <<>>, Plain))

\* router.get('/register')
GetRegisterHandler(s) ==
    IF app = "W3E5"
    THEN Out(cookie, Render(200, "register", s.user, <<>>, <<>>, <<>>, Plain))
    ELSE Out(Save([s EXCEPT !.messages = <<>>, !.errors = <<>>]),
             Render(200, "register", s.user, s.messages, s.errors, <<>>, Plain))

\* a POST /register without its duplicate check
RegisterNeverRejects(username) == FALSE

\* the duplicate check of POST /register
RegisterRejects(username) == UserExists(username)

\* router.post('/register')
PostRegisterHandler(s, u, p) ==
    LET errors == RegisterErrors(u, p)
        username == Trim(u)
    IN  IF errors # <<>> THEN ValidationFailed(s, errors, sRegister)
        ELSE IF RegisterRejects(username)
        THEN Out(Save([s EXCEPT !.messages = <<UsernameExists>>]),
                 Redirect(sRegister, <<UsernameExists>>, Plain))
        ELSE [Out(Save([s EXCEPT !.messages = <<Registered>>]),
                  Redirect(sLogin, <<Registered>>, Plain))
              EXCEPT !.users = Put(users, username,
                                   [password |-> StoredPassword(p), avatar |-> NoAvatar])]

\* router.get('/login')
GetLoginHandler(s) ==
    CASE app = "W3E5" ->
           Out(Save([s EXCEPT !.messages = <<>>]),
               Render(200, "login", s.user, s.messages, <<>>, <<>>, Plain))
      [] app = "W3E4" ->
           Out(Save([s EXCEPT !.messages = <<>>, !.errors = <<>>]),
               Render(200, "login", s.user, s.messages, s.errors, <<>>, Plain))
      [] OTHER ->
           Out(Save([s EXCEPT !.messages = <<>>]),
               Render(200, "login", s.user, s.messages, s.errors, <<>>, Plain))

\* router.post('/login')
PostLoginHandler(s, username, password) ==
    LET errors == LoginErrors(username, password)
    IN  IF errors # <<>> THEN ValidationFailed(s, errors, sLogin)
        ELSE IF LoginThrows(username) THEN Out(cookie, Hang(Plain))
        ELSE IF PasswordMatches(username, password)
        THEN Out(Save([s EXCEPT !.user = username, !.messages = <<LoginSuccessful>>]),
                 Redirect(sRoot, <<LoginSuccessful>>, Plain))
        ELSE Out(Save([s EXCEPT !.messages = <<InvalidLogin>>]),
                 Redirect(sLogin, <<InvalidLogin>>, Plain))

\* a logout that saves the session instead of destroying it
GetLogoutKeepingSession(s) == Out(Save(s), Redirect(sLogin, <<>>, Plain))

\* router.get('/logout')
GetLogoutHandler(s) == Out(Destroy, Redirect(sLogin, <<>>, Plain))

(***************************************************************************)
(* middlewares/loginCheck.js, and the inline guard of W3E4's profile.js    *)
(***************************************************************************)
\* whether the guard awaits req.session.save() before it redirects
GuardSaves(route) == ~(app = "W3E4" /\ route \in {"GET /profile", "POST /profile"})

\* a guard that always calls next()
RequireNothing(s, route, inner) == inner

\* requireLogin(req, res, next); inner is what next() leads to
RequireLogin(s, route, inner) ==
    IF s.user = NoUser
    THEN Out(IF GuardSaves(route) THEN Save([s EXCEPT !.messages = <<MustLogin>>]) ELSE cookie,
             Redirect(sLogin, <<MustLogin>>, <<"session", "requireLogin">>))
    ELSE inner

(***************************************************************************)
(* routes/profile.js and middlewares/upload.js                             *)
(***************************************************************************)
allowedExtensions ==
    {<<".", "p", "n", "g">>, <<".", "j", "p", "g">>,
     <<".", "j", "p", "e", "g">>, <<".", "g", "i", "f">>}

\* a fileFilter that accepts every file
FileFilterAcceptsAll(originalname) == TRUE

\* fileFilter: cb(null, true) or cb(new Error('Only images are allowed'))
FileFilter(originalname) == ToLowerCase(ExtName(originalname)) \in allowedExtensions

\* the name multer stores an accepted file under
StoredName == Cardinality(avatars) + 1

\* router.get('/profile')
GetProfileHandler(s) ==
    IF app \in {"W4SQL", "W4ORM"}
    THEN Out(Save([s EXCEPT !.messages = <<>>]),
             Render(200, "profile", s.user, s.messages, <<>>, <<>>, Guarded))
    ELSE Out(Save(s), Render(200, "profile", s.user, <<>>, <<>>, <<>>, Guarded))

\* the handler of router.post('/profile'), after upload.single('avatar');
\* filename is req.file.filename, NoAvatar when req.file is undefined.
\* users[username].avatar = filename, or UPDATE users SET avatar = ? WHERE username = ?
PostProfileHandler(s, filename) ==
    IF filename = NoAvatar
    THEN Out(Save([s EXCEPT !.messages = <<NoFile>>]), Redirect(sProfile, <<NoFile>>, Uploaded))
    ELSE IF s.user \notin DOMAIN users
    THEN IF InMemory THEN Out(cookie, Hang(Uploaded))
         ELSE Out(Save([s EXCEPT !.messages = <<AvatarUpdated>>]),
                  Redirect(sProfile, <<AvatarUpdated>>, Uploaded))
    ELSE [Out(Save([s EXCEPT !.messages = <<AvatarUpdated>>]),
              Redirect(sProfile, <<AvatarUpdated>>, Uploaded))
          EXCEPT !.users = [users EXCEPT ![s.user].avatar = filename]]

\* upload.single('avatar'): no file part leaves req.file undefined, a file the
\* filter refuses goes to next(err), an accepted file is written to public/avatars/
UploadSingle(s, originalname) ==
    IF originalname = <<>> THEN PostProfileHandler(s, NoAvatar)
    ELSE IF ~FileFilter(originalname)
    THEN Out(cookie, ServerError(<<"session", "requireLogin", "upload">>))
    ELSE [PostProfileHandler(s, StoredName) EXCEPT !.avatars = avatars \cup {StoredName}]

(***************************************************************************)
(* routes/wiki.js                                                          *)
(***************************************************************************)
\* page.content of pages[pageName]; an inherited name has none
PageContent(pageName) == IF pageName \in DOMAIN pages THEN pages[pageName].content ELSE <<>>

\* router.get('/wiki/:pageName') with req.params.pageName
WikiPageHandler(s, pageName) ==
    IF PageExists(pageName)
    THEN Out(cookie, Render(200, "wiki_page", s.user, <<>>, <<>>, PageContent(pageName), Plain))
    ELSE IF app \in {"W3E4", "W3E5"}
    THEN Out(cookie, Render(404, "404", s.user, <<>>, <<>>, <<>>, Plain))
    ELSE Out(Save([s EXCEPT !.messages = <<PageMissing>>]),
             Redirect(s404, <<PageMissing>>, Plain))

\* middlewares/404.js, mounted after the routers
NotFoundHandler(s) ==
    Out(cookie, Render(404, "404", s.user, <<NotFoundMessage>>, <<>>, <<>>,
                       <<"session", "notFound">>))

\* a GET of url: the wiki route when '/wiki/:pageName' matches its pathname (a
\* parameter that does not decode is answered 400), the not-found handler otherwise
GetUrlHandler(s, url) ==
    LET param == WikiParam(PathName(url))
    IN  IF param = <<>> THEN NotFoundHandler(s)
        ELSE IF ~DecodeOk(param)
        THEN Out(cookie, [ServerError(<<"session", "router">>) EXCEPT !.status = 400])
        ELSE WikiPageHandler(s, DecodeURIComponent(param))

\* router.get('/create')
GetCreateHandler(s) ==
    CASE app = "W3E5" ->
           Out(Save([s EXCEPT !.messages = <<>>]),
               Render(200, "create_page", s.user, <<>>, <<>>, <<>>, Guarded))
      [] app = "W4M" ->
           Out(cookie, Render(200, "create_page", s.user, s.messages, s.errors, <<>>, Guarded))
      [] OTHER ->
           Out(Save([s EXCEPT !.messages = <<>>, !.errors = <<>>]),
               Render(200, "create_page", s.user, s.messages, s.errors, <<>>, Guarded))

\* a pages table without the UNIQUE constraint on title
InsertNeverFails(title) == FALSE

\* INSERT INTO pages fails with 'UNIQUE constraint failed: pages.title'
InsertFails(title) == title \in DOMAIN pages

\* res.redirect(`/wiki/${title}`)
WikiLocation(title) == sWikiPrefix \o title

\* router.post('/create')
PostCreateHandler(s, t, content) ==
    LET errors == CreateErrors(t, content)
        title == Trim(t)
    IN  IF errors # <<>>
        THEN IF app = "W3E5"
             THEN Out(Save([s EXCEPT !.messages = ErrorsAsMessages(errors)]),
                      Redirect(sCreate, ErrorsAsMessages(errors), Guarded))
             ELSE Out(Save([s EXCEPT !.errors = errors]), Redirect(sCreate, <<>>, Guarded))
        ELSE IF InMemory
        THEN [Out(cookie, Redirect(WikiLocation(title), <<>>, Guarded))
              EXCEPT !.pages = Put(pages, title, [content |-> content, author |-> s.user])]
        ELSE IF InsertFails(title)
        THEN Out(Save([s EXCEPT !.messages = <<PageTaken>>]),
                 Redirect(sCreate, <<PageTaken>>, Guarded))
        ELSE [Out(Save([s EXCEPT !.messages = <<PageCreated>>]),
                  Redirect(WikiLocation(title), <<PageCreated>>, Guarded))
              EXCEPT !.pages = Put(pages, title, [content |-> content, author |-> NoUser])]

(***************************************************************************)
(* app.js                                                                  *)
(***************************************************************************)
\* app.get('/'): the messages are rendered, then cleared without a save
GetIndexHandler(s) == Out(cookie, Render(200, "index", s.user, s.messages, <<>>, <<>>, Plain))

\* the routes the routers and app.js register, in non-strict routing (a trailing
\* slash is ignored); the wiki route is matched by WikiParam
Routes ==
    {<<"GET", sRegister>>, <<"POST", sRegister>>, <<"GET", sLogin>>, <<"POST", sLogin>>,
     <<"GET", sLogout>>, <<"GET", sProfile>>, <<"POST", sProfile>>,
     <<"GET", sCreate>>, <<"POST", sCreate>>, <<"GET", sRoot>>}

\* the pathname as the route patterns see it
StripSlash(path) ==
    IF Len(path) > 1 /\ path[Len(path)] = "/" THEN SubSeq(path, 1, Len(path) - 1) ELSE path

\* app.use(authRoutes); app.use(profile); app.use(wiki); app.get('/');
\* app.use(notFoundHandler): the first stage whose method and path match answers.
\* A POST sent to a route by its URL alone carries an empty body.
Router(s, method, url) ==
    LET path == StripSlash(PathName(url))
        param == WikiParam(PathName(url))
    IN  CASE <<method, path>> = <<"GET", sRegister>> -> GetRegisterHandler(s)
          [] <<method, path>> = <<"POST", sRegister>> -> PostRegisterHandler(s, <<>>, <<>>)
          [] <<method, path>> = <<"GET", sLogin>> -> GetLoginHandler(s)
          [] <<method, path>> = <<"POST", sLogin>> -> PostLoginHandler(s, <<>>, <<>>)
          [] <<method, path>> = <<"GET", sLogout>> -> GetLogoutHandler(s)
          [] <<method, path>> = <<"GET", sProfile>> ->
                RequireLogin(s, "GET /profile", GetProfileHandler(s))
          [] <<method, path>> = <<"POST", sProfile>> ->
                RequireLogin(s, "POST /profile", UploadSingle(s, <<>>))
          [] <<method, path>> = <<"GET", sCreate>> ->
                RequireLogin(s, "GET /create", GetCreateHandler(s))
          [] <<method, path>> = <<"POST", sCreate>> ->
                RequireLogin(s, "POST /create", PostCreateHandler(s, <<>>, <<>>))
          [] method = "GET" /\ param # <<>> -> GetUrlHandler(s, url)
          [] <<method, path>> = <<"GET", sRoot>> -> GetIndexHandler(s)
          [] OTHER -> NotFoundHandler(s)

(***************************************************************************)
(* The SQLite variants when a database call fails: the callback gets err.   *)
(***************************************************************************)
SqlApps == {"W4SQL", "W4ORM"}
Engines == {"express4", "express5"}

\* the stages of a handler that reached its database call
Queried(ran) == ran \o <<"db">>

\* an async handler whose promise rejects: Express 4 sends nothing, Express 5
\* passes the error to the default error handler
Rejected(ran, engine) == IF engine = "express4" THEN Hang(ran) ELSE ServerError(ran)

AvatarNotUpdated ==
    Flash("danger", IF app = "W4SQL" THEN "Database error while updating avatar."
                    ELSE "Error updating avatar. Please try again.")
PageNotCreated ==
    Flash("danger", IF app = "W4SQL" THEN "Failed to create page."
                    ELSE "Error creating page. It might already exist.")

\* router.get('/profile') when the SELECT fails: reject(err) outside any try
FailingGetProfileHandler(s, engine) == Out(cookie, Rejected(Queried(Guarded), engine))

\* router.post('/profile') when the UPDATE fails: the callback's flash and
\* redirect (the promise is never settled), or the catch block of the model variant
FailingPostProfileHandler(s, originalname) ==
    IF originalname = <<>> \/ ~FileFilter(originalname) THEN UploadSingle(s, originalname)
    ELSE [Out(Save([s EXCEPT !.messages = <<AvatarNotUpdated>>]),
              Redirect(sProfile, <<AvatarNotUpdated>>, Queried(Uploaded)))
          EXCEPT !.avatars = avatars \cup {StoredName}]

\* router.get('/wiki/:pageName') when the SELECT fails: reject(err) followed by
\* res.redirect('/404') in the raw variant, a rejection in the model variant
FailingWikiPageHandler(s, engine) ==
    IF app = "W4SQL" THEN Out(cookie, Redirect(s404, <<>>, Queried(Plain)))
    ELSE Out(cookie, Rejected(Queried(Plain), engine))

\* router.post('/create') when the INSERT fails for another reason than a
\* duplicate title
FailingPostCreateHandler(s, t, content) ==
    IF CreateErrors(t, content) # <<>> THEN PostCreateHandler(s, t, content)
    ELSE Out(Save([s EXCEPT !.messages = <<PageNotCreated>>]),
             Redirect(sCreate, <<PageNotCreated>>, Queried(Guarded)))

(***************************************************************************)
(* The state machine.                                                      *)
(***************************************************************************)
NoReq == [route |-> "-"]

\* a handler that was not called
Idle == [phase |-> "idle"]

\* a client that has not connected
NoSocket == [state |-> "none", user_id |-> 0, phase |-> "-", history |-> <<>>,
             received |-> <<>>]

\* a request the database middleware has not seen
Unserved == [calls |-> <<>>, db |-> 0]

\* no request is in progress and no connection is open when the server starts
InitLater ==
    /\ inflight = [i \in 1..MaxRequests |-> Idle]
    /\ db = 0
    /\ dbState = "none"
    /\ opened = 0
    /\ listeners = 0
    /\ opener = 0
    /\ nexts = [i \in 1..MaxDbRequests |-> Unserved]
    /\ proc = "running"
    /\ closes = 0
    /\ closed = 0
    /\ Messages = << >>
    /\ sockets = [c \in 1..MaxClients |-> NoSocket]
    /\ emitting = << >>

\* no _csrf cookie
NoSecret == "none"

Init ==
    /\ app \in Apps
    /\ users = << >>
    /\ pages = << >>
    /\ avatars = {}
    /\ cookie = NoCookie
    /\ now = 0
    /\ req = NoReq
    /\ res = NoRes
    /\ QuotesDB = << >>
    /\ console = << >>
    /\ csrfSecret = NoSecret
    /\ apiUsers = << >>
    /\ tasks = << >>
    /\ InitLater

\* one request r of the browser, answered with outcome o of the route's stages
\* unless the session middleware never calls next()
Apply(r, o) ==
    /\ req' = r
    /\ IF SessionMiddleware(CookieSent(cookie, now)).nexts = 0
       THEN /\ res' = NoRes
            /\ UNCHANGED <<users, pages, avatars, cookie>>
       ELSE /\ users' = o.users
            /\ pages' = o.pages
            /\ avatars' = o.avatars
            /\ cookie' = o.cookie
            /\ res' = o.res
    /\ UNCHANGED <<app, now, extVars>>

GetRegister == Apply([route |-> "GET /register"], GetRegisterHandler(Session))

PostRegister(u, p) ==
    Apply([route |-> "POST /register", username |-> u, password |-> p],
          PostRegisterHandler(Session, u, p))

GetLogin == Apply([route |-> "GET /login"], GetLoginHandler(Session))

PostLogin(u, p) ==
    Apply([route |-> "POST /login", username |-> u, password |-> p],
          PostLoginHandler(Session, u, p))

GetLogout == Apply([route |-> "GET /logout"], GetLogoutHandler(Session))

GetProfile ==
    Apply([route |-> "GET /profile"],
          RequireLogin(Session, "GET /profile", GetProfileHandler(Session)))

PostProfile(originalname) ==
    /\ (Session.user # NoUser /\ originalname # <<>> /\ FileFilter(originalname))
          => Cardinality(avatars) < MaxFiles
    /\ Apply([route |-> "POST /profile", file |-> originalname],
             RequireLogin(Session, "POST /profile", UploadSingle(Session, originalname)))

GetUrl(url) == Apply([route |-> "GET", url |-> url], GetUrlHandler(Session, url))

GetCreate ==
    Apply([route |-> "GET /create"],
          RequireLogin(Session, "GET /create", GetCreateHandler(Session)))

PostCreate(t, c) ==
    Apply([route |-> "POST /create", title |-> t, content |-> c],
          RequireLogin(Session, "POST /create", PostCreateHandler(Session, t, c)))

GetIndex == Apply([route |-> "GET /"], GetIndexHandler(Session))

\* the browser's cookie is damaged or replaced by one that does not unseal
Tamper ==
    /\ cookie' = BadCookie
    /\ req' = NoReq
    /\ res' = NoRes
    /\ UNCHANGED <<app, users, pages, avatars, now, extVars>>

\* time passes
Tick ==
    /\ now + TickStep <= MaxTime
    /\ now' = now + TickStep
    /\ req' = NoReq
    /\ res' = NoRes
    /\ UNCHANGED <<app, users, pages, avatars, cookie, extVars>>

\* what the browser's user types
Usernames == {sBob, sEve, sBobPadded, sAl}
Passwords == {sSecret, sAbc}
LoginNames == {sBob, sEve, <<>>}
LoginPasswords == {sSecret, sHunter}
Files == {<<>>, sCatPng, sShell}
Titles == {sHome}
Contents == {sHello, <<>>}
Urls == {EncodeUrl(WikiLocation(Trim(t))) : t \in Titles} \cup {sNowhere}

Next ==
    \/ GetRegister
    \/ \E u \in Usernames, p \in Passwords : PostRegister(u, p)
    \/ GetLogin
    \/ \E u \in LoginNames, p \in LoginPasswords : PostLogin(u, p)
    \/ GetLogout
    \/ GetProfile
    \/ \E f \in Files : PostProfile(f)
    \/ \E url \in Urls : GetUrl(url)
    \/ GetCreate
    \/ \E t \in Titles, c \in Contents : PostCreate(t, c)
    \/ GetIndex
    \/ Tamper

Spec == Init /\ [][Next]_vars

\* The wiki, used by one registered user with titles that need trimming or
\* escaping.
WikiTitles == {sHome, sTwoWords, sSlashed, sBlank}
WikiContents == {sHello, sOther, <<>>}
WikiUrls == {EncodeUrl(WikiLocation(Trim(t))) : t \in WikiTitles} \cup {sNowhere}

NextWiki ==
    \/ PostRegister(sBob, sSecret)
    \/ PostLogin(sBob, sSecret)
    \/ GetLogout
    \/ GetCreate
    \/ \E t \in WikiTitles, c \in WikiContents : PostCreate(t, c)
    \/ \E url \in WikiUrls : GetUrl(url)
    \/ GetIndex

SpecWiki == Init /\ [][NextWiki]_vars

\* any request by its method and URL
Request(method, url) ==
    Apply([route |-> "REQ", method |-> method, url |-> url], Router(Session, method, url))

sWikiHome == sWikiPrefix \o sHome
sWikiOther == sWikiPrefix \o sOther
sWikiToString == sWikiPrefix \o sToString
sLoginSlash == sLogin \o <<"/">>
Methods == {"GET", "POST"}
RequestUrls ==
    {sLogin, sLoginSlash, sProfile, sCreate, sRoot, s404, sNowhere, sWikiPrefix,
     sWikiHome, sWikiOther, sWikiToString}

\* every URL with both methods, by a visitor or by one registered user who
\* created a page
NextRoutes ==
    \/ PostRegister(sBob, sSecret)
    \/ PostLogin(sBob, sSecret)
    \/ PostCreate(sHome, sHello)
    \/ \E method \in Methods, url \in RequestUrls : Request(method, url)

SpecRoutes == Init /\ [][NextRoutes]_vars

\* requests during which the database call of the handler fails
FailingGetProfile(engine) ==
    /\ app \in SqlApps
    /\ Apply([route |-> "DBFAIL", op |-> "GET /profile"],
             RequireLogin(Session, "GET /profile", FailingGetProfileHandler(Session, engine)))

FailingPostProfile(originalname) ==
    /\ app \in SqlApps
    /\ (Session.user # NoUser /\ originalname # <<>> /\ FileFilter(originalname))
          => Cardinality(avatars) < MaxFiles
    /\ Apply([route |-> "DBFAIL", op |-> "POST /profile"],
             RequireLogin(Session, "POST /profile",
                          FailingPostProfileHandler(Session, originalname)))

FailingGetWiki(engine) ==
    /\ app \in SqlApps
    /\ Apply([route |-> "DBFAIL", op |-> "GET /wiki/:pageName"],
             FailingWikiPageHandler(Session, engine))

FailingPostCreate(t, c) ==
    /\ app \in SqlApps
    /\ Apply([route |-> "DBFAIL", op |-> "POST /create"],
             RequireLogin(Session, "POST /create", FailingPostCreateHandler(Session, t, c)))

NextFaults ==
    \/ PostRegister(sBob, sSecret)
    \/ PostLogin(sBob, sSecret)
    \/ GetLogin
    \/ GetProfile
    \/ \E f \in Files : PostProfile(f)
    \/ \E c \in Contents : PostCreate(sHome, c)
    \/ \E url \in Urls : GetUrl(url)
    \/ \E engine \in Engines : FailingGetProfile(engine)
    \/ \E f \in Files : FailingPostProfile(f)
    \/ \E engine \in Engines : FailingGetWiki(engine)
    \/ \E c \in Contents : FailingPostCreate(sHome, c)

SpecFaults == Init /\ [][NextFaults]_vars

\* registration and login with names and passwords at the validators' limits
sName25 == [i \in 1..25 |-> "n"]
sName26 == [i \in 1..26 |-> "n"]
sFive == <<"h", "u", "n", "t", "e">>
AuthNames == {sBob, sBobPadded, sAl, sName25, sName26, <<>>}
AuthPasswords == {sSecret, sFive, <<>>}
AuthLoginNames == {sBob, sBobPadded, <<>>}

NextAuth ==
    \/ GetRegister
    \/ \E u \in AuthNames, p \in AuthPasswords : PostRegister(u, p)
    \/ GetLogin
    \/ \E u \in AuthLoginNames, p \in LoginPasswords : PostLogin(u, p)
    \/ GetLogout
    \/ GetIndex

SpecAuth == Init /\ [][NextAuth]_vars

\* registration and login with usernames that Object.prototype also defines
InheritedNames == {sBob, sEve} \cup ProtoKeys

NextNames ==
    \/ GetRegister
    \/ \E u \in InheritedNames, p \in AuthPasswords : PostRegister(u, p)
    \/ GetLogin
    \/ \E u \in InheritedNames, p \in LoginPasswords : PostLogin(u, p)
    \/ GetIndex

SpecNames == Init /\ [][NextNames]_vars

\* POST /register of Workshop 4 in memory, up to `await argon.hash(password)`:
\* the validation and the duplicate check have run, the user is not stored yet
RegisterBegin(i, u, p) ==
    LET o == PostRegisterHandler(EmptySession, u, p)
    IN  /\ app = "W4M"
        /\ inflight[i] = Idle
        /\ req' = [route |-> "POST /register", username |-> u, password |-> p, id |-> i]
        /\ IF o.users = users
           THEN /\ inflight' = [inflight EXCEPT ![i] = [phase |-> "done", username |-> Trim(u),
                                                        password |-> p, res |-> o.res]]
                /\ res' = o.res
           ELSE /\ inflight' = [inflight EXCEPT ![i] = [phase |-> "hashing",
                                                        username |-> Trim(u), password |-> p]]
                /\ res' = NoRes
        /\ UNCHANGED <<app, wikiVars, formVars, apiVars, dbVars, chatVars>>

\* the rest of the handler, after argon.hash has resolved: the user is stored
\* under the username, the success message saved, the browser sent to /login
RegisterFinish(i) ==
    LET r == inflight[i]
        done == Redirect(sLogin, <<Registered>>, Plain)
    IN  /\ app = "W4M"
        /\ r.phase = "hashing"
        /\ users' = Put(users, r.username, [password |-> Argon2Hash(r.password),
                                            avatar |-> NoAvatar])
        /\ inflight' = [inflight EXCEPT ![i] = [r EXCEPT !.phase = "done"] @@ [res |-> done]]
        /\ req' = [route |-> "POST /register (after await)", id |-> i]
        /\ res' = done
        /\ UNCHANGED <<app, pages, avatars, cookie, now, formVars, apiVars, dbVars, chatVars>>

RaceNames == {sBob, sBobPadded, sEve, sAl}

NextRace ==
    \/ \E i \in 1..MaxRequests, u \in RaceNames, p \in LoginPasswords : RegisterBegin(i, u, p)
    \/ \E i \in 1..MaxRequests : RegisterFinish(i)

\* the in-memory application of Workshop 4 after it started
InitRace == Init /\ app = "W4M"

SpecRace == InitRace /\ [][NextRace]_vars

(***************************************************************************)
(* middlewares/dbMiddleware.js                                             *)
(***************************************************************************)
\* a middleware that opens a connection for every request
DbAlwaysMissing(connection) == TRUE

\* !req.app.get('db')
DbMissing(connection) == connection = 0

\* the middleware is called for request i: a first call opens database.db,
\* keeps the connection with app.set and registers closeDb for both signals;
\* every call ends with next()
DbMiddleware(i) ==
    /\ app \in SqlApps
    /\ proc # "exited"
    /\ nexts[i] = Unserved
    /\ IF DbMissing(db)
       THEN /\ opened' = opened + 1
            /\ db' = opened + 1
            /\ dbState' = "opening"
            /\ listeners' = listeners + 1
            /\ opener' = i
       ELSE UNCHANGED <<opened, db, dbState, listeners, opener>>
    /\ nexts' = [nexts EXCEPT ![i] = [calls |-> <<"next()">>, db |-> db']]
    /\ req' = [route |-> "dbMiddleware", id |-> i]
    /\ UNCHANGED <<app, wikiVars, res, formVars, apiVars, raceVars, chatVars, proc, closes, closed>>

\* the callback of new sqlite3.Database: next(err) when the open failed
OpenCallback(err) ==
    /\ app \in SqlApps
    /\ proc # "exited"
    /\ dbState = "opening"
    /\ dbState' = IF err THEN "failed" ELSE "open"
    /\ nexts' = IF err THEN [nexts EXCEPT ![opener].calls = @ \o <<"next(err)">>] ELSE nexts
    /\ req' = [route |-> "open callback", err |-> err]
    /\ UNCHANGED <<app, wikiVars, res, formVars, apiVars, raceVars, chatVars, db, opened, listeners,
                   opener, proc, closes, closed>>

\* SIGINT or SIGTERM: every registered closeDb calls db.close; a process
\* without a listener ends at once
Signal(sig) ==
    /\ app \in SqlApps
    /\ proc # "exited"
    /\ closes < MaxSignals
    /\ IF listeners = 0
       THEN proc' = "exited" /\ UNCHANGED closes
       ELSE proc' = "closing" /\ closes' = closes + listeners
    /\ req' = [route |-> sig]
    /\ UNCHANGED <<app, wikiVars, res, formVars, apiVars, raceVars, chatVars, db, dbState, opened,
                   listeners, opener, nexts, closed>>

\* the callback of db.close, with or without an error: process.exit(0)
CloseCallback ==
    /\ app \in SqlApps
    /\ proc # "exited"
    /\ closes > 0
    /\ dbState # "opening"
    /\ closes' = closes - 1
    /\ closed' = closed + 1
    /\ dbState' = "closed"
    /\ proc' = "exited"
    /\ req' = [route |-> "close callback"]
    /\ UNCHANGED <<app, wikiVars, res, formVars, apiVars, raceVars, chatVars, db, opened, listeners,
                   opener, nexts>>

NextDb ==
    \/ \E i \in 1..MaxDbRequests : DbMiddleware(i)
    \/ \E err \in BOOLEAN : OpenCallback(err)
    \/ \E sig \in {"SIGINT", "SIGTERM"} : Signal(sig)
    \/ CloseCallback

\* the SQLite applications of Workshop 4 after they started
InitDb == Init /\ app \in SqlApps

SpecDb == InitDb /\ [][NextDb]_vars

\* The session of one user while time passes.
NextClock ==
    \/ GetRegister
    \/ PostRegister(sBob, sSecret)
    \/ GetLogin
    \/ \E p \in LoginPasswords : PostLogin(sBob, p)
    \/ GetLogout
    \/ GetProfile
    \/ PostProfile(<<>>)
    \/ GetCreate
    \/ GetIndex
    \/ Tick

SpecClock == Init /\ [][NextClock]_vars

(***************************************************************************)
(* Workshop 2: the contact-form example and the quotes app.  Both mount    *)
(* cookie-parser and csurf({ cookie: true }) before their routers.         *)
(***************************************************************************)
FormApps == {"W2Contact", "W2Quotes"}

\* the secrets tokens.secretSync() can draw
Secrets == {"k1", "k2"}

\* csrf-tokens: a token is salt + '-' + hash(salt + '-' + secret)
Token(secret, salt) == [salt |-> salt, mac |-> <<salt, secret>>]
NoToken == [salt |-> "", mac |-> << >>]
TokenSecret(token) == IF token.mac = << >> THEN NoSecret ELSE token.mac[2]

\* tokens.verify(secret, token)
VerifyToken(secret, token) == token.mac # << >> /\ token.mac = <<token.salt, secret>>

\* a csurf that verifies no token
CsurfIgnoringAll(method, token, fresh) ==
    [secret |-> IF csrfSecret = NoSecret THEN fresh ELSE csrfSecret, ok |-> TRUE]

\* csurf: the secret of the _csrf cookie, or a new one that is set as the cookie;
\* then, unless the method is GET, HEAD or OPTIONS, the token of req.body._csrf
\* is verified against it and a mismatch ends in next(403 'invalid csrf token')
Csurf(method, token, fresh) ==
    LET secret == IF csrfSecret = NoSecret THEN fresh ELSE csrfSecret
    IN  [secret |-> secret,
         ok |-> method \in {"GET", "HEAD", "OPTIONS"} \/ VerifyToken(secret, token)]

\* validator's isEmail, in outline: one '@' with text before it and a dotted
\* domain after it
IsEmail(s) ==
    /\ Cardinality(Positions(s, "@")) = 1
    /\ LET at == Min(Positions(s, "@"))
           dots == {i \in Positions(s, ".") : i > at + 1}
       IN  at > 1 /\ dots # {} /\ Max(dots) < Len(s)

\* the chains of contact_val.js and contact_csrf.js
ContactErrors(name, message, email) ==
    If(name = <<>>, FieldError("name", "Name is required"))
    \o If(~(Len(Trim(name)) \in 3..25), FieldError("name", "Name must be 3-25 characters"))
    \o If(message = <<>>, FieldError("message", "Message is required"))
    \o If(Len(Trim(message)) > 200, FieldError("message", "Message must be under 200 characters"))
    \o If(~IsEmail(email), FieldError("email", "Invalid email format"))

\* a share.js whose chain records no error
ShareErrorsUnchecked(author, quote) == <<>>

\* the chain of share.js
ShareErrors(author, quote) ==
    If(author = <<>>, FieldError("author", "Name is required"))
    \o If(~(Len(Trim(author)) \in 3..25), FieldError("author", "Name must be 3-25 characters"))
    \o If(quote = <<>>, FieldError("quote", "Quote is required"))
    \o If(Len(Trim(quote)) > 300, FieldError("quote", "Quote must be under 300 characters"))

\* the chain of search.js
SearchErrors(author) ==
    If(author = <<>>, FieldError("author", "Name is required"))
    \o If(~(Len(Trim(author)) \in 3..25), FieldError("author", "Name must be 3-25 characters"))

\* String.prototype.includes
Includes(s, sub) ==
    \E i \in 0..(Len(s) - Len(sub)) : SubSeq(s, i + 1, i + Len(sub)) = sub

\* Array.prototype.filter
RECURSIVE Filter(_, _)
Filter(quotes, author) ==
    IF quotes = << >> THEN << >>
    ELSE (IF Includes(ToLowerCase(Head(quotes).author), ToLowerCase(author))
          THEN <<Head(quotes)>> ELSE << >>) \o Filter(Tail(quotes), author)

sContact == <<"/", "c", "o", "n", "t", "a", "c", "t">>
sContactVal == sContact \o <<"_", "v", "a", "l">>
sShare == <<"/", "s", "h", "a", "r", "e">>
sSearch == <<"/", "s", "e", "a", "r", "c", "h">>
Served == <<"csrf", "handler">>

\* what a request of the form applications leaves
FormOut(quotes, log, r) == [QuotesDB |-> quotes, console |-> log, res |-> r]

\* res.render of a form view
FormView(view, errors, content) == Render(200, view, NoUser, <<>>, errors, content, Served)

\* routes/contact.js, routes/contact_val.js and routes/contact_csrf.js
ContactRouter(method, path, body) ==
    LET line == <<[name |-> body.name, message |-> body.message]>>
        trimmed == <<[name |-> Trim(body.name), message |-> Trim(body.message)]>>
        errors == ContactErrors(body.name, body.message, body.email)
    IN  CASE <<method, path>> = <<"GET", sContact>> ->
               FormOut(QuotesDB, console, FormView("contact", <<>>, <<>>))
          [] <<method, path>> = <<"POST", sContact>> ->
               FormOut(QuotesDB, console \o line, FormView("contact", <<>>, body.name))
          [] <<method, path>> = <<"GET", sContactVal>> ->
               FormOut(QuotesDB, console, FormView("contact_val", <<>>, <<>>))
          [] <<method, path>> = <<"POST", sContactVal>> ->
               IF errors # <<>>
               THEN FormOut(QuotesDB, console, FormView("contact_val", errors, <<>>))
               ELSE FormOut(QuotesDB, console \o trimmed,
                            FormView("contact_val", <<>>, Trim(body.name)))
          [] <<method, path>> = <<"GET", sRoot>> ->
               FormOut(QuotesDB, console, FormView("contact_csrf", <<>>, <<>>))
          [] <<method, path>> = <<"POST", sRoot>> ->
               FormOut(QuotesDB, console \o trimmed,
                       FormView("contact_csrf", errors,
                                IF errors # <<>> THEN <<>> ELSE Trim(body.name)))
          [] OTHER ->
               FormOut(QuotesDB, console, [NoRes EXCEPT !.status = 404, !.ran = <<"csrf">>])

\* routes/index.js, routes/share.js and routes/search.js
QuotesRouter(method, path, body) ==
    CASE <<method, path>> = <<"GET", sRoot>> ->
           FormOut(QuotesDB, console, FormView("index", <<>>, QuotesDB))
      [] <<method, path>> = <<"GET", sShare>> ->
           FormOut(QuotesDB, console, FormView("share", <<>>, <<>>))
      [] <<method, path>> = <<"POST", sShare>> ->
           IF ShareErrors(body.author, body.quote) # <<>>
           THEN FormOut(QuotesDB, console,
                        FormView("share", ShareErrors(body.author, body.quote), <<>>))
           ELSE FormOut(QuotesDB \o <<[author |-> Trim(body.author), quote |-> Trim(body.quote)]>>,
                        console, Redirect(sRoot, <<>>, Served))
      [] <<method, path>> = <<"GET", sSearch>> ->
           FormOut(QuotesDB, console, FormView("search", <<>>, <<>>))
      [] <<method, path>> = <<"POST", sSearch>> ->
           IF SearchErrors(body.author) # <<>>
           THEN FormOut(QuotesDB, console, FormView("search", SearchErrors(body.author), <<>>))
           ELSE FormOut(QuotesDB, console,
                        FormView("search", <<>>, Filter(QuotesDB, Trim(body.author))))
      [] OTHER ->
           FormOut(QuotesDB, console, [NoRes EXCEPT !.status = 404, !.ran = <<"csrf">>])

\* app.js: cookieParser, urlencoded, csrfProtection, then the routers
FormApp(method, path, body, token, fresh) ==
    IF ~Csurf(method, token, fresh).ok
    THEN FormOut(QuotesDB, console, [NoRes EXCEPT !.status = 403, !.ran = <<"csrf">>])
    ELSE IF app = "W2Contact" THEN ContactRouter(method, path, body)
    ELSE QuotesRouter(method, path, body)

InitForms ==
    /\ app \in FormApps
    /\ users = << >>
    /\ pages = << >>
    /\ avatars = {}
    /\ cookie = NoCookie
    /\ now = 0
    /\ req = NoReq
    /\ res = NoRes
    /\ QuotesDB = << >>
    /\ console = << >>
    /\ csrfSecret = NoSecret
    /\ apiUsers = << >>
    /\ tasks = << >>
    /\ InitLater

\* one request of the browser to a form application; a secret the server draws
\* is not the one a token sent with the same request was made from
FormRequest(method, path, body, token, fresh) ==
    LET o == FormApp(method, path, body, token, fresh)
    IN  /\ app \in FormApps
        /\ fresh # TokenSecret(token)
        /\ Len(o.console) <= MaxLog
        /\ Len(o.QuotesDB) <= MaxQuotes
        /\ req' = [route |-> "FORM", method |-> method, path |-> path, body |-> body,
                   token |-> token]
        /\ res' = o.res
        /\ QuotesDB' = o.QuotesDB
        /\ console' = o.console
        /\ csrfSecret' = Csurf(method, token, fresh).secret
        /\ UNCHANGED <<app, wikiVars, apiVars, laterVars>>

\* the browser discards its cookies
ForgetCookie ==
    /\ app \in FormApps
    /\ csrfSecret # NoSecret
    /\ csrfSecret' = NoSecret
    /\ req' = NoReq
    /\ res' = NoRes
    /\ UNCHANGED <<app, wikiVars, QuotesDB, console, apiVars, laterVars>>

sMail == <<"a", "@", "b", ".", "c">>
FormBody(name, email, quote) ==
    [name |-> name, message |-> sHello, email |-> email, author |-> name, quote |-> quote]
FormBodies == {FormBody(sBob, sMail, sHello), FormBody(sAl, sMail, sHello),
               FormBody(sBobPadded, sBob, <<>>)}
FormPaths == {sRoot, sContact, sContactVal, sShare, sSearch, sNowhere}
Tokens == {NoToken} \cup {Token(k, "salt") : k \in Secrets}

NextForms ==
    \/ \E method \in Methods, path \in FormPaths, body \in FormBodies,
          token \in Tokens, fresh \in Secrets :
          FormRequest(method, path, body, token, fresh)
    \/ ForgetCookie

SpecForms == InitForms /\ [][NextForms]_vars

\* the quotes application with authors and quotes at the validators' limits
sQuote300 == [i \in 1..300 |-> "q"]
sQuote301 == [i \in 1..301 |-> "q"]
QuoteBody(author, quote) == FormBody(author, sMail, quote)
QuoteBodies == {QuoteBody(sBob, sHello), QuoteBody(sBobPadded, sQuote300),
                QuoteBody(sAl, sHello), QuoteBody(sName26, sHello),
                QuoteBody(sBob, sQuote301), QuoteBody(sBob, <<>>), QuoteBody(<<>>, sHello)}
QuotePaths == {sRoot, sShare, sSearch}

NextQuotes ==
    \/ \E method \in Methods, path \in QuotePaths, body \in QuoteBodies,
          token \in Tokens, fresh \in Secrets :
          FormRequest(method, path, body, token, fresh)
    \/ ForgetCookie

SpecQuotes == InitForms /\ [][NextQuotes]_vars

(***************************************************************************)
(* Workshop 5: the task API (Sequelize models on SQLite, bcrypt, JWT).     *)
(***************************************************************************)
\* a column that was given no value (no string of characters equals it)
Null == <<"null">>

\* bcrypt.hash(password, 10) and bcrypt.compare(password, hash)
BcryptHash(p) == <<"$2b$10$">> \o p
BcryptCompare(p, h) == h = BcryptHash(p)

\* JSON Web Tokens: none, text that does not verify, or a token signed with the
\* key of the source for a user_id, expired or not
NoJwt == [kind |-> "none", user_id |-> 0, expired |-> FALSE]
BadJwt == [kind |-> "garbage", user_id |-> 0, expired |-> FALSE]
Jwt(user_id, expired) == [kind |-> "signed", user_id |-> user_id, expired |-> expired]

\* jwt.verify(token, key, callback): err for a bad signature or an expired token
JwtVerifies(token) == token.kind = "signed" /\ ~token.expired

\* the stages that ran before the response
ApiAnswered == <<"auth", "handler">>

\* res.status(status).json(body)
Json(status, body, ran) == [NoRes EXCEPT !.status = status, !.content = body, !.ran = ran, !.nexts = 1]

\* what a request of the API leaves
ApiOut(u, t, r) == [apiUsers |-> u, tasks |-> t, res |-> r]

\* middleware/auth.js
Auth(token, inner) ==
    IF token.kind = "none"
    THEN ApiOut(apiUsers, tasks, Json(401, "No token provided", <<"auth">>))
    ELSE IF ~JwtVerifies(token)
    THEN ApiOut(apiUsers, tasks, Json(401, "Invalid token", <<"auth">>))
    ELSE inner

\* the primary key AUTOINCREMENT gives the next row of a table
NextId(table) == IF DOMAIN table = {} THEN 1 ELSE Max(DOMAIN table) + 1

\* User.findOne({ where: { username } }) and Task.findAll({ where: { user_id } })
UsersNamed(username) == {id \in DOMAIN apiUsers : apiUsers[id].username = username}
TasksOf(user_id) == {id \in DOMAIN tasks : tasks[id].user_id = user_id}

\* Model.create / instance.save: Sequelize validates allowNull: false before the
\* INSERT and rejects with a notNull violation
UserInsertRejects(values) == values.username = Null \/ values.password_hash = Null

\* Task.create: content and user_id are NOT NULL, user_id REFERENCES user(id)
TaskInsertRejects(values) ==
    values.content = Null \/ values.user_id \notin DOMAIN apiUsers

\* check('username').isLength({min: 4, max: 25}), check('password').isLength({min: 6})
ApiRegisterErrors(username, password) ==
    If(~(Len(username) \in 4..25),
       FieldError("username", "Username must be between 4 and 25 characters"))
    \o If(Len(password) < 6, FieldError("password", "Password must be at least 6 characters"))

\* router.post('/register') of routes/auth.js: User.create({ username }) comes
\* before setPassword and save
ApiRegisterHandler(username, password, engine) ==
    IF ApiRegisterErrors(username, password) # <<>>
    THEN ApiOut(apiUsers, tasks, Json(400, "errors", <<"handler">>))
    ELSE IF UsersNamed(username) # {}
    THEN ApiOut(apiUsers, tasks, Json(400, "Username already exists", <<"handler">>))
    ELSE IF UserInsertRejects([username |-> username, password_hash |-> Null])
    THEN ApiOut(apiUsers, tasks, Rejected(<<"handler">>, engine))
    ELSE ApiOut(Put(apiUsers, NextId(apiUsers),
                    [username |-> username, password_hash |-> BcryptHash(password)]),
                tasks, Json(201, "Registration successful", <<"handler">>))

\* router.post('/login') of routes/auth.js
ApiLoginHandler(username, password) ==
    LET found == UsersNamed(username)
    IN  IF LoginErrors(username, password) # <<>>
        THEN ApiOut(apiUsers, tasks, Json(400, "errors", <<"handler">>))
        ELSE IF found = {} \/ ~BcryptCompare(password, apiUsers[Min(found)].password_hash)
        THEN ApiOut(apiUsers, tasks, Json(401, "Invalid username or password", <<"handler">>))
        ELSE ApiOut(apiUsers, tasks, Json(200, Jwt(Min(found), FALSE), <<"handler">>))

\* router.get('/') of routes/tasks.js
GetTasksHandler(token) ==
    ApiOut(apiUsers, tasks,
           Json(200, TasksOf(token.user_id), ApiAnswered))

\* router.post('/') of routes/tasks.js
PostTaskHandler(token, content, engine) ==
    IF content = <<>>
    THEN ApiOut(apiUsers, tasks, Json(400, "Missing content", ApiAnswered))
    ELSE IF TaskInsertRejects([content |-> content, user_id |-> token.user_id])
    THEN ApiOut(apiUsers, tasks, Rejected(ApiAnswered, engine))
    ELSE ApiOut(apiUsers,
                Put(tasks, NextId(tasks), [content |-> content, user_id |-> token.user_id]),
                Json(201, NextId(tasks), ApiAnswered))

\* router.delete('/:task_id') of routes/tasks.js
DeleteTaskHandler(token, task_id) ==
    IF task_id \notin DOMAIN tasks
    THEN ApiOut(apiUsers, tasks, Json(404, "Task not found", ApiAnswered))
    ELSE IF tasks[task_id].user_id # token.user_id
    THEN ApiOut(apiUsers, tasks, Json(403, "Forbidden", ApiAnswered))
    ELSE ApiOut(apiUsers, [id \in DOMAIN tasks \ {task_id} |-> tasks[id]],
                Json(200, "success", ApiAnswered))

\* sequelize.sync({ force: false }) on a new spa.db, then app.listen
InitApi ==
    /\ app = "W5Api"
    /\ users = << >>
    /\ pages = << >>
    /\ avatars = {}
    /\ cookie = NoCookie
    /\ now = 0
    /\ req = NoReq
    /\ res = NoRes
    /\ QuotesDB = << >>
    /\ console = << >>
    /\ csrfSecret = NoSecret
    /\ apiUsers = << >>
    /\ tasks = << >>
    /\ InitLater

\* one request r to the API with outcome o
ApiApply(r, o) ==
    /\ app = "W5Api"
    /\ Cardinality(DOMAIN o.tasks) <= MaxTasks
    /\ req' = r
    /\ res' = o.res
    /\ apiUsers' = o.apiUsers
    /\ tasks' = o.tasks
    /\ UNCHANGED <<app, wikiVars, formVars, laterVars>>

ApiRegister(username, password, engine) ==
    ApiApply([route |-> "POST /api/auth/register", username |-> username,
              password |-> password],
             ApiRegisterHandler(username, password, engine))

ApiLogin(username, password) ==
    ApiApply([route |-> "POST /api/auth/login", username |-> username, password |-> password],
             ApiLoginHandler(username, password))

ApiGetTasks(token) ==
    ApiApply([route |-> "GET /api/tasks", token |-> token], Auth(token, GetTasksHandler(token)))

ApiPostTask(token, content, engine) ==
    ApiApply([route |-> "POST /api/tasks", token |-> token, content |-> content],
             Auth(token, PostTaskHandler(token, content, engine)))

ApiDeleteTask(token, task_id) ==
    ApiApply([route |-> "DELETE /api/tasks/:task_id", token |-> token, task_id |-> task_id],
             Auth(token, DeleteTaskHandler(token, task_id)))

sAlice == <<"a", "l", "i", "c", "e">>
ApiNames == {sAlice, sBob, sEve, sBobPadded, sAl, sName25, sName26, <<>>}
ApiPasswords == {sSecret, sHunter, sFive, <<>>}
ApiContents == {sHello, sOther, <<>>}
UserIds == 1..MaxUsers
Jwts == {NoJwt, BadJwt} \cup {Jwt(id, e) : id \in UserIds, e \in BOOLEAN}
TaskIds == 1..MaxTasks

NextApi ==
    \/ \E u \in ApiNames, p \in ApiPasswords, engine \in Engines : ApiRegister(u, p, engine)
    \/ \E u \in ApiNames, p \in ApiPasswords : ApiLogin(u, p)
    \/ \E token \in Jwts : ApiGetTasks(token)
    \/ \E token \in Jwts, c \in ApiContents, engine \in Engines : ApiPostTask(token, c, engine)
    \/ \E token \in Jwts, id \in TaskIds : ApiDeleteTask(token, id)

SpecApi == InitApi /\ [][NextApi]_vars

(***************************************************************************)
(* Workshop 5: the live chat (Socket.IO on the server of the task API).    *)
(***************************************************************************)
\* io.use: next() without an error
Handshake(token) == token.kind # "none" /\ JwtVerifies(token)

\* a client opens a socket with a token; one that io.use refuses gets no
\* connection, the others get the connection handler, which starts with
\* Message.findAll
Connect(c, token) ==
    /\ app = "W5Chat"
    /\ sockets[c].state = "none"
    /\ sockets' = [sockets EXCEPT ![c] =
                      IF Handshake(token)
                      THEN [NoSocket EXCEPT !.state = "connected", !.user_id = token.user_id,
                                            !.phase = "query"]
                      ELSE [NoSocket EXCEPT !.state = "refused"]]
    /\ req' = [route |-> "connect", client |-> c, token |-> token]
    /\ UNCHANGED <<app, wikiVars, res, formVars, apiVars, raceVars, dbVars, Messages, emitting>>

\* Message.findAll({ order: [['timestamp', 'ASC']] }) resolves with the rows the
\* table holds now; with no row the loop is skipped and new_message is listened to
FindAll(c) ==
    /\ app = "W5Chat"
    /\ sockets[c].phase = "query"
    /\ sockets' = [sockets EXCEPT ![c].history = [i \in 1..Len(Messages) |-> i],
                                  ![c].phase = IF Messages = << >> THEN "listening"
                                               ELSE "replay"]
    /\ req' = [route |-> "findAll", client |-> c]
    /\ UNCHANGED <<app, wikiVars, res, formVars, apiVars, raceVars, dbVars, Messages, emitting>>

\* one turn of the loop: User.findByPk resolves and the row is emitted to the
\* socket; after the last row socket.on('new_message') is reached
Replay(c) ==
    /\ app = "W5Chat"
    /\ sockets[c].phase = "replay"
    /\ sockets' = [sockets EXCEPT ![c].received = Append(@, Head(sockets[c].history)),
                                  ![c].history = Tail(@),
                                  ![c].phase = IF Len(sockets[c].history) = 1
                                               THEN "listening" ELSE "replay"]
    /\ req' = [route |-> "replay", client |-> c]
    /\ UNCHANGED <<app, wikiVars, res, formVars, apiVars, raceVars, dbVars, Messages, emitting>>

\* the client emits new_message: without a listener the event is dropped; the
\* listener awaits Message.create, which rejects for a user_id that is no row
\* of the user table
NewMessage(c, text) ==
    /\ app = "W5Chat"
    /\ sockets[c].state = "connected"
    /\ Len(Messages) < MaxMessages
    /\ IF sockets[c].phase = "listening" /\ sockets[c].user_id \in DOMAIN apiUsers
       THEN /\ Messages' = Append(Messages, [content |-> text, user_id |-> sockets[c].user_id])
            /\ emitting' = Append(emitting, Len(Messages) + 1)
       ELSE UNCHANGED <<Messages, emitting>>
    /\ req' = [route |-> "new_message", client |-> c, text |-> text]
    /\ UNCHANGED <<app, wikiVars, res, formVars, apiVars, raceVars, dbVars, sockets>>

\* the listener resumes after Message.create: io.emit('message_received') to
\* every connected socket
Broadcast ==
    /\ app = "W5Chat"
    /\ emitting # << >>
    /\ sockets' = [c \in DOMAIN sockets |->
                      IF sockets[c].state = "connected"
                      THEN [sockets[c] EXCEPT !.received = Append(@, Head(emitting))]
                      ELSE sockets[c]]
    /\ emitting' = Tail(emitting)
    /\ req' = [route |-> "message_received", id |-> Head(emitting)]
    /\ UNCHANGED <<app, wikiVars, res, formVars, apiVars, raceVars, dbVars, Messages>>

\* sequelize.sync({ force: false }) keeps the rows spa.db holds: a new file, or
\* one with user rows
ChatUsers ==
    (1 :> [username |-> sAlice, password_hash |-> BcryptHash(sSecret)])
    @@ (2 :> [username |-> sBob, password_hash |-> BcryptHash(sHunter)])

InitChat ==
    /\ app = "W5Chat"
    /\ users = << >>
    /\ pages = << >>
    /\ avatars = {}
    /\ cookie = NoCookie
    /\ now = 0
    /\ req = NoReq
    /\ res = NoRes
    /\ QuotesDB = << >>
    /\ console = << >>
    /\ csrfSecret = NoSecret
    /\ apiUsers \in {<< >>, ChatUsers}
    /\ tasks = << >>
    /\ InitLater

NextChat ==
    \/ \E c \in 1..MaxClients, token \in Jwts : Connect(c, token)
    \/ \E c \in 1..MaxClients : FindAll(c)
    \/ \E c \in 1..MaxClients : Replay(c)
    \/ \E c \in 1..MaxClients, text \in {sHello, sOther} : NewMessage(c, text)
    \/ Broadcast

SpecChat == InitChat /\ [][NextChat]_vars

(***************************************************************************)
(* Workshop 1: the JSON API of Example3/app.js.                            *)
(***************************************************************************)
s100 == <<"1", "0", "0">>
s101 == <<"1", "0", "1">>
s102 == <<"1", "0", "2">>

\* the fake database
productsDb ==
    (s100 :> [name |-> "Laptop", price |-> 1200])
    @@ (s101 :> [name |-> "Mouse", price |-> 25])
    @@ (s102 :> [name |-> "Keyboard", price |-> 75])

\* !product is false: productsDb[productId] is a stored product, or a member
\* that the object inherits from Object.prototype
ProductFound(productId) == productId \in DOMAIN productsDb \/ productId \in ProtoKeys

\* product.name and product.price; JSON.stringify leaves out a price that is
\* undefined, and a function's name is the name of the function
ProductData(productId) ==
    IF productId \in DOMAIN productsDb
    THEN [name |-> productsDb[productId].name, price |-> productsDb[productId].price]
    ELSE [name |-> IF productId = sToString THEN "toString" ELSE "Object"]

\* req.query.currency || 'USD'
Currency(query) ==
    IF "currency" \in DOMAIN query /\ query.currency # "" THEN query.currency ELSE "USD"

\* app.get('/api/products/:productId')
GetProductHandler(productId, query) ==
    IF ~ProductFound(productId)
    THEN Json(404, [error |-> "Product not found"], <<"handler">>)
    ELSE Json(200, [id |-> productId, currency |-> Currency(query)] @@ ProductData(productId),
              <<"handler">>)

\* node app.js
InitProducts ==
    /\ app = "W1Products"
    /\ users = << >>
    /\ pages = << >>
    /\ avatars = {}
    /\ cookie = NoCookie
    /\ now = 0
    /\ req = NoReq
    /\ res = NoRes
    /\ QuotesDB = << >>
    /\ console = << >>
    /\ csrfSecret = NoSecret
    /\ apiUsers = << >>
    /\ tasks = << >>
    /\ InitLater

GetProduct(productId, query) ==
    /\ app = "W1Products"
    /\ req' = [route |-> "GET /api/products/:productId", productId |-> productId,
               query |-> query]
    /\ res' = GetProductHandler(productId, query)
    /\ UNCHANGED <<app, wikiVars, extVars>>

Digits == {"0", "1", "2"}
ProductIds == {<<a, b, c>> : a \in Digits, b \in Digits, c \in Digits} \cup ProtoKeys
Queries == {<< >>} \cup {[currency |-> c] : c \in {"", "USD", "EUR", "DZD"}}

NextProducts == \E productId \in ProductIds, query \in Queries : GetProduct(productId, query)

SpecProducts == InitProducts /\ [][NextProducts]_vars

(***************************************************************************)
(* Properties.  In an action formula the unprimed Session is the session   *)
(* the request of the step is handled with, req' and res' are that request *)
(* and its response; a step that is no request has req'.route = "-".       *)
(***************************************************************************)
GuardedRoutes == {"GET /create", "POST /create", "GET /profile", "POST /profile"}

\* the messages stored in the session the browser now holds
StoredMessages == IF cookie.kind = "sealed" THEN cookie.data.messages ELSE <<>>

RedirectedTo(r, location) == r.status = 302 /\ r.location = location

C2_GuardedRoutesNeedLogin ==
    [][(req'.route \in GuardedRoutes /\ Session.user = NoUser)
          => /\ RedirectedTo(res', sLogin)
             /\ res'.ran = <<"session", "requireLogin">>
             /\ UNCHANGED <<users, pages, avatars>>]_vars

\* C2 witness: an anonymous POST /profile that carried an image was turned away
C2_Witness ==
    /\ req.route = "POST /profile"
    /\ req.file = sCatPng
    /\ RedirectedTo(res, sLogin)
    /\ users # << >>

\* C3: GET /logout leaves the browser without a user; from a session without a
\* user only a successful POST /login leads to a session with one; and every
\* request to a guarded route made without a user is redirected to /login.  So
\* after a logout every guarded request is redirected until a login succeeds.
C3_LogoutRevokes ==
    [][/\ req'.route = "GET /logout" => Session'.user = NoUser
       /\ (Session.user = NoUser
             /\ ~(req'.route = "POST /login" /\ res'.flash = <<Flash("success", "Login successful!")>>))
             => Session'.user = NoUser
       /\ (Session.user = NoUser /\ req'.route \in GuardedRoutes)
             => RedirectedTo(res', sLogin)]_vars

\* C3 witness: a GET /logout was answered and left the browser of a site with a
\* registered user without a session user
C3_Witness ==
    /\ req.route = "GET /logout"
    /\ RedirectedTo(res, sLogin)
    /\ users # << >>
    /\ Session.user = NoUser

\* C4: a user's stored avatar changes only in a POST /profile of that user whose
\* file has a lower-cased extension among .png, .jpg, .jpeg, .gif, and it becomes
\* the name the file was stored under; with another extension or without a file
\* it stays as it was.
C4_AvatarOnlyFromAcceptedFile ==
    [][\A u \in DOMAIN users :
          users'[u].avatar # users[u].avatar
             => /\ req'.route = "POST /profile"
                /\ u = Session.user
                /\ req'.file # <<>>
                /\ ToLowerCase(ExtName(req'.file))
                      \in {<<".", "p", "n", "g">>, <<".", "j", "p", "g">>,
                           <<".", "j", "p", "e", "g">>, <<".", "g", "i", "f">>}
                /\ users'[u].avatar \notin avatars
                /\ avatars' = avatars \cup {users'[u].avatar}]_vars

\* C4 witness: an accepted upload became the avatar of the logged-in user
C4_Witness ==
    /\ req.route = "POST /profile"
    /\ req.file = sCatPng
    /\ Session.user \in DOMAIN users
    /\ users[Session.user].avatar \in avatars

FlashPages == {"index", "login", "register", "create_page", "profile"}

PageOf(route) ==
    CASE route = "GET /login" -> sLogin
      [] route = "GET /register" -> sRegister
      [] route = "GET /profile" -> sProfile
      [] route = "GET /create" -> sCreate
      [] route = "GET /" -> sRoot
      [] OTHER -> <<>>

Elements(seq) == {seq[i] : i \in 1..Len(seq)}

\* C6: once a page has rendered the session's messages, the next request of the
\* browser renders none of them again unless its own stages stored it again.
C6_FlashShownOnce ==
    [][(res.status = 200 /\ res.view \in FlashPages /\ req'.route # "-")
          => \A m \in Elements(res.messages) :
                m \in Elements(res'.messages) => m \in Elements(res'.flash)]_vars

\* the flash messages C7 names
NamedFlashes ==
    {Flash("danger", "You must be logged in to access this page."),
     Flash("danger", "Username already exists!"),
     Flash("success", "Registration successful! Please log in."),
     Flash("success", "Avatar updated!"),
     Flash("danger", "No file selected or invalid file type.")}

\* C7: a flash message stored before a redirect to /login, /register or
\* /profile is displayed by that page when it is the browser's next request.
C7_FlashReachesNextPage ==
    [][(res.status = 302 /\ res.flash # <<>> /\ Elements(res.flash) \subseteq NamedFlashes
          /\ res.location \in {sLogin, sRegister, sProfile}
          /\ PageOf(req'.route) = res.location)
          => (res'.status = 200 /\ res'.messages = res.flash)]_vars

\* the submitted password matches the one stored for a registered username
\* (the plain password, or the Argon2 hash of it)
SubmittedMatchesStored(username, password) ==
    /\ username \in DOMAIN users
    /\ users[username].password \in {password, <<"$argon2id$">> \o password}

\* C8: a request changes session.user only if it is a POST /login whose
\* username is registered and whose password matches the stored one, and then
\* session.user is {username}; or if it is GET /logout.  Such a POST /login
\* always sets it.
C8_OnlyLoginSetsUser ==
    [][req'.route # "-"
          => IF req'.route = "POST /login"
                /\ SubmittedMatchesStored(req'.username, req'.password)
             THEN Session'.user = req'.username
             ELSE req'.route = "GET /logout" \/ Session'.user = Session.user]_vars

\* C8 witness: a POST /login of a second registered user succeeded and the
\* session holds the submitted username
C8_Witness ==
    /\ req.route = "POST /login"
    /\ Session.user = sEve
    /\ req.username = sEve
    /\ sBob \in DOMAIN users
    /\ RedirectedTo(res, sRoot)

C5_CreatedPageIsFound ==
    [][(req.route = "POST /create" /\ res.status = 302 /\ HasPrefix(res.location, sWikiPrefix)
          /\ req'.route = "GET" /\ req'.url = res.location)
          => (res'.status = 200 /\ res'.view = "wiki_page" /\ res'.content = req.content)]_vars

RouteMatched(method, url) ==
    \/ <<method, StripSlash(PathName(url))>> \in Routes
    \/ method = "GET" /\ WikiParam(PathName(url)) # <<>>

\* C11: a request reaches the not-found handler if and only if no route matched
\* it, and is then answered with status 404 and the '404' view; a GET of
\* /wiki/:pageName for a page that was never created is answered 404 directly
\* or redirected to /404.
C11_NotFoundIsLast ==
    [][req'.route = "REQ"
          => /\ ("notFound" \in Elements(res'.ran)) <=> ~RouteMatched(req'.method, req'.url)
             /\ ~RouteMatched(req'.method, req'.url)
                   => res'.status = 404 /\ res'.view = "404"
             /\ (/\ req'.method = "GET"
                 /\ WikiParam(PathName(req'.url)) # <<>>
                 /\ DecodeOk(WikiParam(PathName(req'.url)))
                 /\ DecodeURIComponent(WikiParam(PathName(req'.url))) \notin DOMAIN pages)
                   => \/ res'.status = 404 /\ res'.view = "404"
                      \/ RedirectedTo(res', s404)]_vars

\* C12: in the SQLite variants a request whose handler reached a database call
\* that failed receives a response, and that response is a redirect with a
\* danger flash message stored for the next page.
C12_DbFailureAnswered ==
    [][(req'.route = "DBFAIL" /\ "db" \in Elements(res'.ran))
          => /\ res'.status = 302
             /\ res'.flash # <<>>
             /\ \A m \in Elements(res'.flash) : m.category = "danger"
             /\ StoredMessages' = res'.flash]_vars

\* C13: a logged-in user's POST /profile with a file whose extension is not
\* among .png, .jpg, .jpeg, .gif is answered like one without a file: a redirect
\* to /profile with the danger message 'No file selected or invalid file type.'
\* stored in the session.
C13_RefusedFileIsFlashed ==
    [][(/\ req'.route = "POST /profile"
        /\ Session.user # NoUser
        /\ req'.file # <<>>
        /\ ToLowerCase(ExtName(req'.file))
              \notin {<<".", "p", "n", "g">>, <<".", "j", "p", "g">>,
                      <<".", "j", "p", "e", "g">>, <<".", "g", "i", "f">>})
          => /\ RedirectedTo(res', sProfile)
             /\ StoredMessages'
                   = <<Flash("danger", "No file selected or invalid file type.")>>]_vars

\* C14: in the in-memory variants a stored wiki page keeps its content and
\* author through every later request, another POST /create with its title
\* included.
C14_PagesAreNeverReplaced ==
    [][InMemory => \A t \in DOMAIN pages : t \in DOMAIN pages' /\ pages'[t] = pages[t]]_vars

C16_HashedLogin ==
    [][Hashed
          => /\ (req'.route = "POST /register" /\ users' # users)
                   => /\ users'[Trim(req'.username)].password = Argon2Hash(req'.password)
                      /\ users'[Trim(req'.username)].password # req'.password
             /\ (/\ req.route = "POST /register"
                 /\ res.flash = <<Registered>>
                 /\ req'.route = "POST /login"
                 /\ req'.username = req.username)
                   => ((res'.flash = <<LoginSuccessful>> /\ Session'.user = req.username)
                         <=> req'.password = req.password)]_vars

\* a render shows the field errors, as errors or as danger messages
ShowsErrors(r, errors) ==
    r.status = 200 /\ (r.errors = errors \/ r.messages = ErrorsAsMessages(errors))

\* C17: after a POST /register (POST /login) that failed validation, the next
\* GET /register (GET /login) of the browser renders the field errors, and the
\* render after that one no longer shows them.
C17_FieldErrorsShownOnce ==
    [][/\ (/\ req.route = "POST /register"
           /\ RegisterErrors(req.username, req.password) # <<>>
           /\ req'.route = "GET /register")
             => ShowsErrors(res', RegisterErrors(req.username, req.password))
       /\ (/\ req.route = "POST /login"
           /\ LoginErrors(req.username, req.password) # <<>>
           /\ req'.route = "GET /login")
             => ShowsErrors(res', LoginErrors(req.username, req.password))
       /\ (/\ req.route \in {"GET /register", "GET /login"}
           /\ res.errors # <<>>
           /\ req'.route = req.route)
             => res'.errors = <<>>]_vars

\* C18: POST /register changes the users store only when the username, trimmed,
\* has 3 to 25 characters and the password has at least 6; then the new record is
\* stored under the trimmed username.  For every other input the store is
\* unchanged and the response is a redirect to /register.
C18_RegisterValidates ==
    [][req'.route = "POST /register"
          => IF Len(Trim(req'.username)) \in 3..25 /\ Len(req'.password) >= 6
             THEN users' # users
                     => /\ DOMAIN users' = DOMAIN users \cup {Trim(req'.username)}
                        /\ Trim(req'.username) \notin DOMAIN users
                        /\ RedirectedTo(res', sLogin)
             ELSE users' = users /\ RedirectedTo(res', sRegister)]_vars

\* C18 witness: a username of 26 characters was turned away by a store that
\* holds a user registered with one of 25
C18_Witness ==
    /\ req.route = "POST /register"
    /\ req.username = sName26
    /\ req.password = sSecret
    /\ RedirectedTo(res, sRegister)
    /\ sName25 \in DOMAIN users

\* the rows an API request added to a table
AddedRows(old, new) == {id \in DOMAIN new : id \notin DOMAIN old}

\* C20: a registration with a username of 4 to 25 characters that is not taken
\* and a password of at least 6 characters answers 201 and leaves exactly one new
\* user, whose password_hash verifies the password; with a taken username it
\* answers 400 and stores nothing.
C20_RegisterStoresUser ==
    [][req'.route = "POST /api/auth/register"
       /\ Len(req'.username) \in 4..25 /\ Len(req'.password) >= 6
       => IF \E id \in DOMAIN apiUsers : apiUsers[id].username = req'.username
          THEN res'.status = 400 /\ apiUsers' = apiUsers
          ELSE /\ res'.status = 201
               /\ Cardinality(AddedRows(apiUsers, apiUsers')) = 1
               /\ \A id \in DOMAIN apiUsers : id \in DOMAIN apiUsers' /\ apiUsers'[id] = apiUsers[id]
               /\ \A id \in AddedRows(apiUsers, apiUsers') :
                      /\ apiUsers'[id].username = req'.username
                      /\ BcryptCompare(req'.password, apiUsers'[id].password_hash)]_vars

TaskRoutes == {"GET /api/tasks", "POST /api/tasks", "DELETE /api/tasks/:task_id"}

\* C19: a request to the task routes without a valid token gets 401, reaches no
\* handler and changes nothing; GET returns only tasks of the token's user;
\* DELETE removes only a task of the token's user, answers 403 for another
\* user's task and leaves it stored, and 404 for an unknown id; POST stores the
\* task under the token's user_id.
C19_TasksBelongToTokenUser ==
    [][req'.route \in TaskRoutes =>
         IF ~JwtVerifies(req'.token)
         THEN res'.status = 401 /\ res'.ran = <<"auth">> /\ tasks' = tasks
         ELSE /\ req'.route = "GET /api/tasks" =>
                    /\ tasks' = tasks
                    /\ \A id \in res'.content : tasks[id].user_id = req'.token.user_id
              /\ req'.route = "DELETE /api/tasks/:task_id" =>
                    /\ \A id \in DOMAIN tasks \ DOMAIN tasks' :
                           id = req'.task_id /\ tasks[id].user_id = req'.token.user_id
                    /\ req'.task_id \notin DOMAIN tasks => res'.status = 404
                    /\ (req'.task_id \in DOMAIN tasks
                        /\ tasks[req'.task_id].user_id # req'.token.user_id)
                       => res'.status = 403 /\ tasks' = tasks
              /\ (req'.route = "POST /api/tasks" /\ req'.content # <<>>) =>
                    /\ res'.status = 201
                    /\ Cardinality(AddedRows(tasks, tasks')) = 1
                    /\ \A id \in AddedRows(tasks, tasks') :
                           /\ tasks'[id].user_id = req'.token.user_id
                           /\ tasks'[id].content = req'.content]_vars

\* C28: in the in-memory variants a POST /register with a valid username that
\* no earlier registration stored, and a valid password, creates the user and
\* redirects to /login; 'Username already exists!' is reported only for a name
\* that an earlier registration stored.
C28_OnlyStoredNamesAreTaken ==
    [][(/\ InMemory
        /\ req'.route = "POST /register"
        /\ RegisterErrors(req'.username, req'.password) = <<>>)
          => /\ Trim(req'.username) \notin DOMAIN users
                   => /\ Trim(req'.username) \in DOMAIN users'
                      /\ RedirectedTo(res', sLogin)
             /\ res'.flash = <<UsernameExists>> => Trim(req'.username) \in DOMAIN users]_vars

\* C23: in the raw SQLite variant a POST /create of a logged-in user with a
\* title that already exists inserts nothing and leaves the existing row as it
\* was; the response is a redirect to /create, not to the wiki page, and the
\* stored message is 'A page with that title already exists!' and no success
\* message.
C23_DuplicateTitleRefused ==
    [][(/\ app = "W4SQL"
        /\ req'.route = "POST /create"
        /\ Session.user # NoUser
        /\ CreateErrors(req'.title, req'.content) = <<>>
        /\ Trim(req'.title) \in DOMAIN pages)
          => /\ pages' = pages
             /\ RedirectedTo(res', sCreate)
             /\ res'.location # WikiLocation(Trim(req'.title))
             /\ StoredMessages' =
                    <<Flash("danger", "A page with that title already exists!")>>
             /\ PageCreated \notin Elements(StoredMessages')]_vars

\* C23 witness: a second POST /create of an existing title with other content
\* was refused by the raw SQLite variant
C23_Witness ==
    /\ app = "W4SQL"
    /\ req.route = "POST /create"
    /\ Trim(req.title) \in DOMAIN pages
    /\ pages[Trim(req.title)].content # req.content
    /\ RedirectedTo(res, sCreate)
    /\ res.flash = <<PageTaken>>

\* C29: no page is ever stored under an empty title: a POST /create of a
\* logged-in user whose title is empty or only whitespace, or whose content is
\* empty, creates nothing and redirects to /create, and for such a title
\* 'Page title is required' is stored for the next page.
C29_NoEmptyTitle ==
    [][/\ <<>> \notin DOMAIN pages'
       /\ (/\ req'.route = "POST /create"
           /\ Session.user # NoUser
           /\ (Trim(req'.title) = <<>> \/ req'.content = <<>>))
             => /\ pages' = pages
                /\ RedirectedTo(res', sCreate)
                /\ Trim(req'.title) = <<>>
                      => \/ Flash("danger", "Page title is required")
                               \in Elements(StoredMessages')
                         \/ FieldError("title", "Page title is required")
                               \in Elements(cookie'.data.errors)]_vars

\* an author of 3 to 25 characters and a quote that is not empty and has at
\* most 300 characters
ValidQuote(body) ==
    /\ body.author # <<>> /\ Len(Trim(body.author)) >= 3 /\ Len(Trim(body.author)) <= 25
    /\ body.quote # <<>> /\ Len(Trim(body.quote)) <= 300

\* C26: in the quotes app a POST /share that the CSRF check lets through
\* appends exactly one {author, quote} entry to QuotesDB when author and quote
\* are valid; every other request (an invalid POST /share, GET /, GET /search,
\* POST /search, GET /share) leaves QuotesDB as it was, so entries are never
\* removed or reordered.
C26_OnlyShareAppends ==
    [][(app = "W2Quotes" /\ req'.route = "FORM")
          => IF /\ req'.method = "POST" /\ req'.path = sShare
                /\ res'.status # 403
                /\ ValidQuote(req'.body)
             THEN QuotesDB' = QuotesDB \o <<[author |-> Trim(req'.body.author),
                                             quote |-> Trim(req'.body.quote)]>>
             ELSE QuotesDB' = QuotesDB]_vars

\* C26 witness: a second quote, of 300 characters, was appended behind the first
C26_Witness ==
    /\ app = "W2Quotes"
    /\ req.route = "FORM" /\ req.method = "POST" /\ req.path = sShare
    /\ Len(QuotesDB) = 2
    /\ QuotesDB[1] = [author |-> sBob, quote |-> sHello]
    /\ QuotesDB[2] = [author |-> sBob, quote |-> sQuote300]
    /\ RedirectedTo(res, sRoot)

\* C22: GET /api/products/:productId answers 404 with {error: 'Product not
\* found'} for every id other than '100', '101' and '102', and otherwise answers
\* the product's id, name and price with the currency of the query, or 'USD' when
\* the query has no currency.
C22_ProductOrNotFound ==
    [][req'.route = "GET /api/products/:productId"
          => IF req'.productId \notin {s100, s101, s102}
             THEN res'.status = 404 /\ res'.content = [error |-> "Product not found"]
             ELSE /\ res'.status = 200
                  /\ res'.content =
                        [id |-> req'.productId,
                         name |-> productsDb[req'.productId].name,
                         price |-> productsDb[req'.productId].price,
                         currency |-> IF "currency" \in DOMAIN req'.query
                                      THEN req'.query.currency ELSE "USD"]]_vars

\* the requests that reported 'Registration successful!' for a username
Successful(handlers, username) ==
    {i \in 1..MaxRequests : /\ handlers[i].phase = "done"
                            /\ handlers[i].username = username
                            /\ handlers[i].res.flash = <<Registered>>}

\* C27: in the in-memory variant with Argon2, of the POST /register requests
\* for one new username that are in progress together at most one reports
\* 'Registration successful!', and a stored record is never overwritten by a
\* later one.
C27_OneRegistrationWins ==
    [][/\ \A u \in DOMAIN users : users'[u] = users[u]
       /\ \A i \in 1..MaxRequests :
              inflight'[i].phase = "done"
                 => Cardinality(Successful(inflight', inflight'[i].username)) <= 1]_vars

\* the requests that passed the database middleware
ServedRequests == {i \in 1..MaxDbRequests : nexts[i] # Unserved}

\* C25: the database middleware opens at most one SQLite connection per
\* process and registers the signal handlers at most once; every request is
\* given that same connection; and after SIGINT or SIGTERM the process exits
\* only when the close callback of the connection has run.
C25_OneConnection ==
    /\ opened <= 1
    /\ listeners <= 1
    /\ \A i \in ServedRequests : nexts[i].db = 1 /\ db = 1
    /\ (proc = "exited" /\ opened > 0) => closed >= 1

\* C25 witness: three requests were served by one connection and the process
\* has exited after a signal
C25_Witness ==
    /\ ServedRequests = 1..MaxDbRequests
    /\ opened = 1
    /\ proc = "exited"
    /\ closed = 1

\* C30: the database middleware calls next exactly once for every request:
\* next() when a connection exists or was opened, and only next(err) when the
\* open failed; after a failed open no later request is passed on with the
\* broken connection.
C30_NextOnce ==
    [][/\ \A i \in ServedRequests' :
              /\ Len(nexts'[i].calls) = 1
              /\ (i = opener' /\ dbState' = "failed") => nexts'[i].calls = <<"next(err)">>
       /\ (dbState = "failed" /\ req'.route = "dbMiddleware")
             => nexts'[req'.id].calls # <<"next()">>]_vars

\* a sequence of row ids in which every id is greater than the one before it
Ascending(ids) == \A i \in 1..(Len(ids) - 1) : ids[i] < ids[i + 1]

C24_NewMessageStoredAndBroadcast ==
    [][/\ req'.route = "new_message"
             => /\ Messages' = Append(Messages, [content |-> req'.text,
                                                 user_id |-> sockets[req'.client].user_id])
                /\ emitting' = Append(emitting, Len(Messages'))
       /\ req'.route = "message_received"
             => \A c \in 1..MaxClients :
                    sockets[c].state = "connected"
                       => sockets'[c].received = Append(sockets[c].received, req'.id)]_vars

====
